---------------------------- MODULE Spec2Model ----------------------------
(***************************************************************************)
(* Model of just_prompt/molecules/build_context.py: the ignore matcher,    *)
(* the language resolver, the file collector, the content reader, the      *)
(* fence selection and the build_context orchestration.                    *)
(*                                                                         *)
(* A Python str is a sequence of one-character strings; a pathlib Path is  *)
(* the sequence of its parts (each part a str, the root being the part     *)
(* "/"); the file system is a function from absolute paths to entries.     *)
(***************************************************************************)
EXTENDS Integers, Sequences, FiniteSets, TLC

(***************************************************************************)
(* Characters and strings                                                  *)
(***************************************************************************)

\* the character U+0060, which a TLA+ string cannot hold
Backtick == "BACKTICK"

\* The characters that occur in names, in code point order (str.__lt__).
AsciiOrder ==
    << "\n", " ", "#", "*", "-", ".", "/",
       "0", "1", "2", "3", "4", "5", "6", "7", "8", "9",
       "A", "B", "C", "D", "E", "F", "G", "H", "I", "J", "K", "L", "M",
       "N", "O", "P", "Q", "R", "S", "T", "U", "V", "W", "X", "Y", "Z",
       "[", "]", "_", Backtick,
       "a", "b", "c", "d", "e", "f", "g", "h", "i", "j", "k", "l", "m",
       "n", "o", "p", "q", "r", "s", "t", "u", "v", "w", "x", "y", "z",
       "~" >>

Ord(c) == CHOOSE i \in 1..Len(AsciiOrder) : AsciiOrder[i] = c

UpperCase == << "A", "B", "C", "D", "E", "F", "G", "H", "I", "J", "K", "L", "M",
                "N", "O", "P", "Q", "R", "S", "T", "U", "V", "W", "X", "Y", "Z" >>

LowerCase == << "a", "b", "c", "d", "e", "f", "g", "h", "i", "j", "k", "l", "m",
                "n", "o", "p", "q", "r", "s", "t", "u", "v", "w", "x", "y", "z" >>

\* str.lower(), one character
LowerChar(c) ==
    IF \E i \in 1..Len(UpperCase) : UpperCase[i] = c
    THEN LowerCase[CHOOSE i \in 1..Len(UpperCase) : UpperCase[i] = c]
    ELSE c

\* str.lower()
Lower(s) == [i \in 1..Len(s) |-> LowerChar(s[i])]

\* str.startswith(prefix)
StartsWith(s, prefix) ==
    /\ Len(prefix) <= Len(s)
    /\ SubSeq(s, 1, Len(prefix)) = prefix

\* str.endswith(suffix)
EndsWith(s, suffix) ==
    /\ Len(suffix) <= Len(s)
    /\ SubSeq(s, Len(s) - Len(suffix) + 1, Len(s)) = suffix

\* c in s, for a character c
HasChar(s, c) == \E i \in 1..Len(s) : s[i] = c

\* s < t for two str (lexicographic by code point)
RECURSIVE StrLess(_, _)
StrLess(s, t) ==
    IF t = <<>> THEN FALSE
    ELSE IF s = <<>> THEN TRUE
    ELSE IF s[1] = t[1] THEN StrLess(Tail(s), Tail(t))
    ELSE Ord(s[1]) < Ord(t[1])

\* s.split(sep) for a one-character separator: a non-empty list of str
RECURSIVE SplitFrom(_, _, _, _)
SplitFrom(s, sep, i, cur) ==
    IF i > Len(s) THEN << cur >>
    ELSE IF s[i] = sep THEN << cur >> \o SplitFrom(s, sep, i + 1, <<>>)
    ELSE SplitFrom(s, sep, i + 1, Append(cur, s[i]))

Split(s, sep) == SplitFrom(s, sep, 1, <<>>)

\* sep.join(list) for a list of str
RECURSIVE Join(_, _)
Join(list, sep) ==
    IF list = <<>> THEN <<>>
    ELSE IF Len(list) = 1 THEN list[1]
    ELSE list[1] \o sep \o Join(Tail(list), sep)

\* str.splitlines() for text whose only line terminator is "\n"
SplitLines(s) ==
    LET raw == Split(s, "\n")
    IN  IF raw[Len(raw)] = <<>> THEN SubSeq(raw, 1, Len(raw) - 1) ELSE raw

\* the elements of a list
Range(list) == {list[i] : i \in 1..Len(list)}

(***************************************************************************)
(* pathlib.PurePosixPath                                                   *)
(***************************************************************************)

Root == << "/" >>

\* Path(s): split on "/", drop empty and "." components, keep a leading root
RECURSIVE DropDots(_)
DropDots(list) ==
    IF list = <<>> THEN <<>>
    ELSE IF list[1] = <<>> \/ list[1] = << "." >> THEN DropDots(Tail(list))
    ELSE << list[1] >> \o DropDots(Tail(list))

PathOf(s) ==
    IF s # <<>> /\ s[1] = "/"
    THEN << Root >> \o DropDots(Split(s, "/"))
    ELSE DropDots(Split(s, "/"))

IsAbsolute(path) == path # <<>> /\ path[1] = Root

\* str(path)
PathStr(path) ==
    IF path = <<>> THEN << "." >>
    ELSE IF IsAbsolute(path) THEN << "/" >> \o Join(Tail(path), << "/" >>)
    ELSE Join(path, << "/" >>)

\* path.name
PathName(path) ==
    IF path = <<>> \/ path = << Root >> THEN <<>> ELSE path[Len(path)]

\* path.parent
PathParent(path) ==
    IF path = <<>> \/ path = << Root >> THEN path
    ELSE SubSeq(path, 1, Len(path) - 1)

\* path.suffix
PathSuffix(path) ==
    LET name == PathName(path)
        dots == {i \in 1..Len(name) : name[i] = "."}
        last == CHOOSE i \in dots : \A j \in dots : j <= i
    IN  IF dots = {} THEN <<>>
        ELSE IF last = 1 \/ last = Len(name) THEN <<>>
        ELSE SubSeq(name, last, Len(name))

\* p < q for two paths: the parts compared as lists of str
RECURSIVE PathLess(_, _)
PathLess(p, q) ==
    IF q = <<>> THEN FALSE
    ELSE IF p = <<>> THEN TRUE
    ELSE IF p[1] = q[1] THEN PathLess(Tail(p), Tail(q))
    ELSE StrLess(p[1], q[1])

\* path.relative_to(other): the remainder, or ValueError
IsRelativeTo(path, other) ==
    /\ Len(other) <= Len(path)
    /\ SubSeq(path, 1, Len(other)) = other

RelativeTo(path, other) == SubSeq(path, Len(other) + 1, Len(path))

\* sorted(paths)
RECURSIVE SortPaths(_)
SortPaths(S) ==
    IF S = {} THEN <<>>
    ELSE LET m == CHOOSE p \in S : \A q \in S : q = p \/ PathLess(p, q)
         IN  << m >> \o SortPaths(S \ {m})

(***************************************************************************)
(* Module constants (build_context.py lines 14-131)                        *)
(***************************************************************************)

\* the extension -> language table, as (key, value) pairs
LANGUAGE_MAP ==
    { <<<<".", "p", "y">>, <<"p", "y", "t", "h", "o", "n">>>>,
      <<<<".", "j", "s">>, <<"j", "a", "v", "a", "s", "c", "r", "i", "p", "t">>>>,
      <<<<".", "t", "s">>, <<"t", "y", "p", "e", "s", "c", "r", "i", "p", "t">>>>,
      <<<<".", "t", "s", "x">>, <<"t", "y", "p", "e", "s", "c", "r", "i", "p", "t">>>>,
      <<<<".", "j", "s", "x">>, <<"j", "a", "v", "a", "s", "c", "r", "i", "p", "t">>>>,
      <<<<".", "j", "a", "v", "a">>, <<"j", "a", "v", "a">>>>,
      <<<<".", "c">>, <<"c">>>>,
      <<<<".", "c", "p", "p">>, <<"c", "p", "p">>>>,
      <<<<".", "c", "c">>, <<"c", "p", "p">>>>,
      <<<<".", "c", "x", "x">>, <<"c", "p", "p">>>>,
      <<<<".", "h">>, <<"c">>>>,
      <<<<".", "h", "p", "p">>, <<"c", "p", "p">>>>,
      <<<<".", "c", "s">>, <<"c", "s", "h", "a", "r", "p">>>>,
      <<<<".", "g", "o">>, <<"g", "o">>>>,
      <<<<".", "r", "s">>, <<"r", "u", "s", "t">>>>,
      <<<<".", "p", "h", "p">>, <<"p", "h", "p">>>>,
      <<<<".", "r", "b">>, <<"r", "u", "b", "y">>>>,
      <<<<".", "s", "w", "i", "f", "t">>, <<"s", "w", "i", "f", "t">>>>,
      <<<<".", "k", "t">>, <<"k", "o", "t", "l", "i", "n">>>>,
      <<<<".", "s", "c", "a", "l", "a">>, <<"s", "c", "a", "l", "a">>>>,
      <<<<".", "s", "h">>, <<"b", "a", "s", "h">>>>,
      <<<<".", "b", "a", "s", "h">>, <<"b", "a", "s", "h">>>>,
      <<<<".", "z", "s", "h">>, <<"z", "s", "h">>>>,
      <<<<".", "f", "i", "s", "h">>, <<"f", "i", "s", "h">>>>,
      <<<<".", "p", "s", "1">>, <<"p", "o", "w", "e", "r", "s", "h", "e", "l", "l">>>>,
      <<<<".", "s", "q", "l">>, <<"s", "q", "l">>>>,
      <<<<".", "h", "t", "m", "l">>, <<"h", "t", "m", "l">>>>,
      <<<<".", "c", "s", "s">>, <<"c", "s", "s">>>>,
      <<<<".", "s", "c", "s", "s">>, <<"s", "c", "s", "s">>>>,
      <<<<".", "s", "a", "s", "s">>, <<"s", "a", "s", "s">>>>,
      <<<<".", "l", "e", "s", "s">>, <<"l", "e", "s", "s">>>>,
      <<<<".", "x", "m", "l">>, <<"x", "m", "l">>>>,
      <<<<".", "j", "s", "o", "n">>, <<"j", "s", "o", "n">>>>,
      <<<<".", "y", "a", "m", "l">>, <<"y", "a", "m", "l">>>>,
      <<<<".", "y", "m", "l">>, <<"y", "a", "m", "l">>>>,
      <<<<".", "t", "o", "m", "l">>, <<"t", "o", "m", "l">>>>,
      <<<<".", "i", "n", "i">>, <<"i", "n", "i">>>>,
      <<<<".", "c", "f", "g">>, <<"i", "n", "i">>>>,
      <<<<".", "c", "o", "n", "f">>, <<"i", "n", "i">>>>,
      <<<<".", "m", "d">>, <<"m", "a", "r", "k", "d", "o", "w", "n">>>>,
      <<<<".", "t", "x", "t">>, <<"t", "e", "x", "t">>>>,
      <<<<".", "l", "o", "g">>, <<"t", "e", "x", "t">>>>,
      <<<<".", "e", "n", "v">>, <<"b", "a", "s", "h">>>>,
      <<<<".", "d", "o", "c", "k", "e", "r", "f", "i", "l", "e">>, <<"d", "o", "c", "k", "e", "r", "f", "i", "l", "e">>>>,
      <<<<".", "m", "a", "k", "e", "f", "i", "l", "e">>, <<"m", "a", "k", "e", "f", "i", "l", "e">>>>,
      <<<<".", "g", "r", "a", "d", "l", "e">>, <<"g", "r", "a", "d", "l", "e">>>>,
      <<<<".", "r">>, <<"r">>>>,
      <<<<".", "R">>, <<"r">>>>,
      <<<<".", "m">>, <<"m", "a", "t", "l", "a", "b">>>>,
      <<<<".", "p", "l">>, <<"p", "e", "r", "l">>>>,
      <<<<".", "l", "u", "a">>, <<"l", "u", "a">>>>,
      <<<<".", "v", "i", "m">>, <<"v", "i", "m">>>>,
      <<<<".", "d", "a", "r", "t">>, <<"d", "a", "r", "t">>>>,
      <<<<".", "e", "l", "m">>, <<"e", "l", "m">>>>,
      <<<<".", "e", "x">>, <<"e", "l", "i", "x", "i", "r">>>>,
      <<<<".", "e", "x", "s">>, <<"e", "l", "i", "x", "i", "r">>>>,
      <<<<".", "c", "l", "j">>, <<"c", "l", "o", "j", "u", "r", "e">>>>,
      <<<<".", "c", "l", "j", "s">>, <<"c", "l", "o", "j", "u", "r", "e">>>>,
      <<<<".", "h", "s">>, <<"h", "a", "s", "k", "e", "l", "l">>>>,
      <<<<".", "m", "l">>, <<"o", "c", "a", "m", "l">>>>,
      <<<<".", "f", "s">>, <<"f", "s", "h", "a", "r", "p">>>>,
      <<<<".", "j", "l">>, <<"j", "u", "l", "i", "a">>>>,
      <<<<".", "n", "i", "m">>, <<"n", "i", "m">>>>,
      <<<<".", "z", "i", "g">>, <<"z", "i", "g">>>> }

DEFAULT_IGNORE_PATTERNS ==
    << <<".", "g", "i", "t">>,
       <<".", "g", "i", "t", "i", "g", "n", "o", "r", "e">>,
       <<".", "g", "i", "t", "m", "o", "d", "u", "l", "e", "s">>,
       <<"_", "_", "p", "y", "c", "a", "c", "h", "e", "_", "_">>,
       <<".", "p", "y", "t", "e", "s", "t", "_", "c", "a", "c", "h", "e">>,
       <<"n", "o", "d", "e", "_", "m", "o", "d", "u", "l", "e", "s">>,
       <<".", "n", "p", "m">>,
       <<".", "y", "a", "r", "n">>,
       <<"p", "a", "c", "k", "a", "g", "e", "-", "l", "o", "c", "k", ".", "j", "s", "o", "n">>,
       <<"y", "a", "r", "n", ".", "l", "o", "c", "k">>,
       <<".", "e", "n", "v">>,
       <<".", "v", "e", "n", "v">>,
       <<"e", "n", "v">>,
       <<"v", "e", "n", "v">>,
       <<".", "D", "S", "_", "S", "t", "o", "r", "e">>,
       <<"T", "h", "u", "m", "b", "s", ".", "d", "b">>,
       <<"*", ".", "p", "y", "c">>,
       <<"*", ".", "p", "y", "o">>,
       <<"*", ".", "p", "y", "d">>,
       <<"*", ".", "s", "o">>,
       <<"*", ".", "d", "y", "l", "i", "b">>,
       <<"*", ".", "d", "l", "l">>,
       <<"*", ".", "e", "x", "e">>,
       <<"*", ".", "o">>,
       <<"*", ".", "o", "b", "j">>,
       <<"*", ".", "a">>,
       <<"*", ".", "l", "i", "b">>,
       <<"*", ".", "l", "o", "g">>,
       <<".", "i", "d", "e", "a">>,
       <<".", "v", "s", "c", "o", "d", "e">>,
       <<".", "v", "s">>,
       <<"*", ".", "s", "w", "p">>,
       <<"*", ".", "s", "w", "o">>,
       <<"*", "~">>,
       <<".", "c", "o", "v", "e", "r", "a", "g", "e">>,
       <<".", "n", "y", "c", "_", "o", "u", "t", "p", "u", "t">>,
       <<"c", "o", "v", "e", "r", "a", "g", "e">>,
       <<"d", "i", "s", "t">>,
       <<"b", "u", "i", "l", "d">>,
       <<"t", "a", "r", "g", "e", "t">>,
       <<"b", "i", "n">>,
       <<"o", "b", "j">>,
       <<".", "n", "e", "x", "t">>,
       <<".", "n", "u", "x", "t">>,
       <<".", "s", "v", "e", "l", "t", "e", "-", "k", "i", "t">>,
       <<"n", "o", "d", "e", "_", "m", "o", "d", "u", "l", "e", "s", ".", "n", "o", "s", "y", "n", "c">>,
       <<".", "t", "m", "p">>,
       <<".", "t", "e", "m", "p">> >>

\* LANGUAGE_MAP.get(extension, default)
LanguageMapGet(extension, default) ==
    IF \E e \in LANGUAGE_MAP : e[1] = extension
    THEN (CHOOSE e \in LANGUAGE_MAP : e[1] = extension)[2]
    ELSE default

\* the size ceiling of collect_files: 1024 * 1024 bytes
MaxFileSize == 1048576

(***************************************************************************)
(* get_file_language                                                       *)
(***************************************************************************)

S_text == << "t", "e", "x", "t" >>

S_makefile == << "m", "a", "k", "e", "f", "i", "l", "e" >>

S_markdown == << "m", "a", "r", "k", "d", "o", "w", "n" >>

WellKnownNames ==
    { << "d", "o", "c", "k", "e", "r", "f", "i", "l", "e" >>,
      S_makefile,
      << "r", "a", "k", "e", "f", "i", "l", "e" >>,
      << "g", "e", "m", "f", "i", "l", "e" >> }

\* the loop of lines 157-161: parts[i] for i from the last down to the second
RECURSIVE ScanExtensions(_, _)
ScanExtensions(parts, i) ==
    IF i < 2 THEN <<>>
    ELSE LET extension == << "." >> \o parts[i]
         IN  IF \E e \in LANGUAGE_MAP : e[1] = extension
             THEN LanguageMapGet(extension, <<>>)
             ELSE ScanExtensions(parts, i - 1)

\* get_file_language with the loop of lines 157-161 left out: only the last
\* suffix is looked up
get_file_language_LastSuffixOnly(file_path) ==
    LET filename == Lower(PathName(file_path))
    IN  IF ~HasChar(filename, ".")
        THEN IF filename \in WellKnownNames THEN filename
             ELSE IF StartsWith(filename, S_makefile) THEN S_makefile
             ELSE S_text
        ELSE LanguageMapGet(Lower(PathSuffix(file_path)), S_text)

get_file_language(file_path) ==
    LET filename == Lower(PathName(file_path))
        parts == Split(filename, ".")
        found == ScanExtensions(parts, Len(parts))
    IN  IF ~HasChar(filename, ".")
        THEN IF filename \in WellKnownNames THEN filename
             ELSE IF StartsWith(filename, S_makefile) THEN S_makefile
             ELSE S_text
        ELSE IF found # <<>> THEN found
        ELSE LanguageMapGet(Lower(PathSuffix(file_path)), S_text)

(***************************************************************************)
(* should_ignore_file                                                      *)
(***************************************************************************)

\* one iteration of the loop, lines 183-194, with the test of the path parts
\* left out
PatternMatches_NoParts(pattern, file_path) ==
    \/ pattern = PathName(file_path)
    \/ StartsWith(pattern, << "*" >>) /\ EndsWith(PathName(file_path), Tail(pattern))

\* one iteration of the loop, lines 183-194: does this pattern match
PatternMatches(pattern, file_path) ==
    \/ pattern = PathName(file_path)
    \/ StartsWith(pattern, << "*" >>) /\ EndsWith(PathName(file_path), Tail(pattern))
    \/ pattern \in Range(file_path)

\* the loop of lines 182-196, first match returns
RECURSIVE should_ignore_file(_, _)
should_ignore_file(file_path, ignore_patterns) ==
    IF ignore_patterns = <<>> THEN FALSE
    ELSE IF PatternMatches(Head(ignore_patterns), file_path) THEN TRUE
    ELSE should_ignore_file(file_path, Tail(ignore_patterns))

(***************************************************************************)
(* count_max_backticks                                                     *)
(***************************************************************************)

Max(a, b) == IF a >= b THEN a ELSE b

\* the loop of lines 366-371 from position i on
RECURSIVE CountFrom(_, _, _, _)
CountFrom(content, i, max_backticks, current_backticks) ==
    IF i > Len(content) THEN max_backticks
    ELSE IF content[i] = Backtick
         THEN CountFrom(content, i + 1,
                        Max(max_backticks, current_backticks + 1),
                        current_backticks + 1)
         ELSE CountFrom(content, i + 1, max_backticks, 0)

count_max_backticks(content) == CountFrom(content, 1, 0, 0)

(***************************************************************************)
(* read_file_content                                                       *)
(***************************************************************************)

DigitChars == << "0", "1", "2", "3", "4", "5", "6", "7", "8", "9" >>

\* str(n) for a natural number
RECURSIVE Decimal(_)
Decimal(n) ==
    IF n < 10 THEN << DigitChars[n + 1] >>
    ELSE Decimal(n \div 10) \o << DigitChars[(n % 10) + 1] >>

\* f"{i:>4}": right-aligned in a field of width 4
RightAlign4(i) ==
    LET d == Decimal(i)
    IN  [k \in 1..Max(0, 4 - Len(d)) |-> " "] \o d

\* lines 289-293: number every line and join with newlines; "->" is the
\* one-character separator U+2192
NumberLines(content) ==
    LET lines == SplitLines(content)
    IN  Join([i \in 1..Len(lines) |-> RightAlign4(i) \o << "->" >> \o lines[i]],
             << "\n" >>)

BinaryPlaceholder == << "[", "Binary file - content not displayed", "]" >>

ErrorPlaceholder == << "[", "Error reading file: ", "Permission denied", "]" >>

\* entry.enc: "utf8" decodes as UTF-8; "binary" fails UTF-8 and has a
\* non-ASCII character among its first 100; "unreadable" fails in open()
read_file_content(entry, include_line_numbers) ==
    IF entry.enc = "utf8"
    THEN IF include_line_numbers THEN NumberLines(entry.data) ELSE entry.data
    ELSE IF entry.enc = "binary" THEN BinaryPlaceholder
    ELSE ErrorPlaceholder

(***************************************************************************)
(* The file system                                                         *)
(*                                                                         *)
(* A function from absolute paths to entries.  kind is "dir", "file" or    *)
(* "locked" (a directory that may be neither searched nor listed: stat of  *)
(* anything below it fails with EACCES); size is st_size; enc says how the *)
(* bytes decode; data is the text of a file.                               *)
(***************************************************************************)

DirEntry == [kind |-> "dir", size |-> 0, enc |-> "utf8", data |-> <<>>]

LockedEntry == [kind |-> "locked", size |-> 0, enc |-> "utf8", data |-> <<>>]

FileEntry(size, enc, data) == [kind |-> "file", size |-> size, enc |-> enc, data |-> data]

\* the kernel's walk of an absolute path over ".." components: ".." names the
\* parent of the directory reached so far, the root being its own parent.
\* The tree holds no symbolic link; the walk is exact when every component
\* before a ".." is an existing directory, as in every path tried here.
RECURSIVE Collapse(_, _)
Collapse(rest, reached) ==
    IF rest = <<>> THEN reached
    ELSE IF rest[1] = << ".", "." >>
         THEN Collapse(Tail(rest),
                       IF Len(reached) > 1 THEN SubSeq(reached, 1, Len(reached) - 1)
                       ELSE reached)
    ELSE Collapse(Tail(rest), Append(reached, rest[1]))

\* the absolute path a path names when the working directory is cwd
Resolve(path, cwd) ==
    IF IsAbsolute(path) THEN Collapse(Tail(path), << Root >>)
    ELSE Collapse(path, cwd)

\* os.stat fails with EACCES: a proper ancestor is not searchable
StatDenied(fsys, abs) ==
    \E i \in 1..(Len(abs) - 1) :
        /\ SubSeq(abs, 1, i) \in DOMAIN fsys
        /\ fsys[SubSeq(abs, 1, i)].kind = "locked"

\* os.stat succeeds
StatOk(fsys, abs) == abs \in DOMAIN fsys /\ ~StatDenied(fsys, abs)

\* Path.exists() / is_dir() / is_file() raise instead of answering: pathlib
\* swallows only ENOENT, ENOTDIR, EBADF and ELOOP; an interpreter whose
\* pathlib swallows every OSError (strict = FALSE) answers False instead
StatRaises(fsys, abs, strict) == strict /\ StatDenied(fsys, abs)

IsDir(fsys, abs) == StatOk(fsys, abs) /\ fsys[abs].kind \in {"dir", "locked"}

IsFile(fsys, abs) == StatOk(fsys, abs) /\ fsys[abs].kind = "file"

\* dir_path.rglob: every entry below the directory, spelled from
\* dir_path; a directory that cannot be listed contributes nothing
RGlob(dir_path, cwd, fsys) ==
    LET top == Resolve(dir_path, cwd)
    IN  { dir_path \o RelativeTo(abs, top) :
            abs \in { a \in DOMAIN fsys :
                        /\ a # top
                        /\ IsRelativeTo(a, top)
                        /\ ~StatDenied(fsys, a) } }

(***************************************************************************)
(* collect_files                                                           *)
(***************************************************************************)

\* lines 232-240 and 260-268: the file is appended unless st_size > 1 MiB
WithinSizeLimit(fsys, abs) == ~(fsys[abs].size > MaxFileSize)

\* lines 218-240 for one directory, its walk filtered by the default
\* patterns as well as the given ones
WalkDirectory_Merged(directory, ignore_patterns, cwd, fsys) ==
    LET dir_path == PathOf(directory)
    IN  IF ~IsDir(fsys, Resolve(dir_path, cwd)) THEN {}
        ELSE { file_path \in RGlob(dir_path, cwd, fsys) :
                 /\ IsFile(fsys, Resolve(file_path, cwd))
                 /\ ~should_ignore_file(file_path, ignore_patterns \o DEFAULT_IGNORE_PATTERNS)
                 /\ WithinSizeLimit(fsys, Resolve(file_path, cwd)) }

\* lines 218-240 for one directory: the paths it appends
WalkDirectory(directory, ignore_patterns, cwd, fsys) ==
    LET dir_path == PathOf(directory)
    IN  IF ~IsDir(fsys, Resolve(dir_path, cwd)) THEN {}
        ELSE { file_path \in RGlob(dir_path, cwd, fsys) :
                 /\ IsFile(fsys, Resolve(file_path, cwd))
                 /\ ~should_ignore_file(file_path, ignore_patterns)
                 /\ WithinSizeLimit(fsys, Resolve(file_path, cwd)) }

\* lines 244-268 for one explicit file: the paths it appends (at most one)
ExplicitFile(file_str, ignore_patterns, cwd, fsys) ==
    LET file_path == PathOf(file_str)
        abs == Resolve(file_path, cwd)
    IN  IF /\ IsFile(fsys, abs)
           /\ ~should_ignore_file(file_path, ignore_patterns)
           /\ WithinSizeLimit(fsys, abs)
        THEN {file_path}
        ELSE {}

\* line 271, without the sort: the paths in some other order
Finish_Unsorted(collected, cwd) ==
    LET s == SortPaths(collected)
    IN  [i \in 1..Len(s) |-> s[Len(s) + 1 - i]]

\* line 271: sorted(list(set(collected_files)))
Finish(collected, cwd) == SortPaths(collected)

\* lines 211-212
EffectivePatterns(ignore_patterns) ==
    IF ignore_patterns.isNone THEN DEFAULT_IGNORE_PATTERNS ELSE ignore_patterns.list

\* the whole function: raised is TRUE when exists() or is_dir()/is_file()
\* raises on a listed path, which nothing in collect_files catches
collect_files(directories, files, ignore_patterns, cwd, fsys, strict) ==
    LET patterns == EffectivePatterns(ignore_patterns)
        fromDirs == UNION { WalkDirectory(directories[i], patterns, cwd, fsys) :
                              i \in 1..Len(directories) }
        fromFiles == UNION { ExplicitFile(files[i], patterns, cwd, fsys) :
                               i \in 1..Len(files) }
        raised == \E s \in Range(directories) \cup Range(files) :
                     StatRaises(fsys, Resolve(PathOf(s), cwd), strict)
    IN  [raised |-> raised,
         list |-> IF raised THEN <<>> ELSE Finish(fromDirs \cup fromFiles, cwd)]

(***************************************************************************)
(* generate_file_summary and the section of one file                       *)
(***************************************************************************)

\* what prompt() did: "ok" a response, "none" no response, "fail" it raised
SummaryOutcomes == {"ok", "none", "fail"}

\* lines 328-350: always a string, whatever the summarizer does
generate_file_summary(outcome) ==
    IF outcome = "ok" THEN << "S" >>
    ELSE IF outcome = "none" THEN << "No summary available" >>
    ELSE << "Summary generation failed" >>

NoSummary == << "[", "No summary available", "]" >>

\* '`' * n
Backticks(n) == [k \in 1..n |-> Backtick]

\* lines 495-497 and 506: the fence width, the run length itself
FenceWidth_NoPlusOne(language, file_content) ==
    IF language = S_markdown THEN count_max_backticks(file_content) ELSE 3

\* lines 495-497 and 506: the number of backticks of the wrapping fence
FenceWidth(language, file_content) ==
    IF language = S_markdown THEN count_max_backticks(file_content) + 1 ELSE 3

\* lines 455-459: the path shown in the heading
DisplayPath(file_path, cwd) ==
    IF IsRelativeTo(file_path, cwd) THEN RelativeTo(file_path, cwd) ELSE file_path

\* line 473: is the summarizer asked
WantsSummary(summarize_model, file_content) ==
    summarize_model # <<>> /\ ~StartsWith(file_content, << "[" >>)

\* lines 455-510: the lines appended for one file when nothing raises
FileSection(file_path, entry, cwd, summarize_model, include_line_numbers, outcome) ==
    LET relative_path == DisplayPath(file_path, cwd)
        file_content == read_file_content(entry, include_line_numbers)
        language == get_file_language(file_path)
        fence == Backticks(FenceWidth(language, file_content))
        summary == IF WantsSummary(summarize_model, file_content)
                   THEN generate_file_summary(outcome)
                   ELSE NoSummary
    IN  << << "## " >> \o PathStr(relative_path),
           << "### Summary" >>,
           summary,
           <<>>,
           << "### File Contents" >>,
           fence \o language,
           file_content,
           fence,
           <<>> >>

\* lines 512-519: the lines appended when processing the file raised
ErrorSection(file_path) ==
    << << "## " >> \o PathStr(file_path),
       <<>>,
       << "[", "Error processing file: ", "reason", "]" >>,
       <<>> >>

(***************************************************************************)
(* build_context: state                                                    *)
(***************************************************************************)

VARIABLES
    fs,               \* the file system
    cwd,              \* the working directory of the process (absolute path)
    pc,               \* where build_context stands
    args,             \* the arguments of the call
    original_cwd,     \* line 411/414; <<>> is None
    base_path,        \* lines 420-429
    collected_files,  \* line 432
    idx,              \* the position of the loop of line 452
    content_lines,    \* line 436
    sections,         \* one record per file processed by this call
    outcome,          \* how the call ended: "none", "returned", "ValueError", "OSError"
    returned,         \* the value returned by line 528
    failed_at,        \* the step whose failure ended the call, or "none"
    io,               \* has this call touched the file system or the working directory
    written,          \* the text this call wrote to the output file
    prev,             \* outcome, text and faults of the previous call
    faulted,          \* did a per-file exception occur in this call
    troubles,         \* per-file exceptions and summarizer failures so far
    calls,            \* the number of calls started
    cwd_at_call,      \* the working directory when the call started
    fs_at_call,       \* the file system when the call started
    probe             \* the inputs and the result of the pure function under check

vars == << fs, cwd, pc, args, original_cwd, base_path, collected_files, idx,
           content_lines, sections, outcome, returned, failed_at, io, written,
           prev, faulted, troubles, calls, cwd_at_call, fs_at_call, probe >>

\* the number of calls of build_context in one behaviour
MaxCalls == 2

\* the number of per-file exceptions and summarizer failures in one behaviour
MaxTroubles == 1

\* build_context is called again only after a document of at most this length
MaxText == 200

(***************************************************************************)
(* The files on disk and the arguments tried                               *)
(***************************************************************************)

N_p == << "p" >>

N_s == << "s" >>

N_w == << "w" >>

N_k == << "k" >>

N_a_py == << "a", ".", "p", "y" >>

N_b_py == << "b", ".", "p", "y" >>

N_r_md == << "r", ".", "m", "d" >>

N_k_log == << "k", ".", "l", "o", "g" >>

N_h_js == << "h", ".", "j", "s" >>

N_g_js == << "g", ".", "j", "s" >>

\* the texts r.md may hold
ReadmeTexts ==
    { << "[", Backtick, Backtick, Backtick, "x", "\n", Backtick >> }

\* /p with a.py, r.md, k.log, g.js (exactly 1 MiB), h.js (one byte more,
\* not UTF-8) and s/b.py (not readable); /w empty; /k locked
InitialFs(readme) ==
    (<< Root >> :> DirEntry)
    @@ (<< Root, N_p >> :> DirEntry)
    @@ (<< Root, N_p, N_a_py >> :> FileEntry(1, "utf8", << "x" >>))
    @@ (<< Root, N_p, N_r_md >> :> FileEntry(Len(readme), "utf8", readme))
    @@ (<< Root, N_p, N_k_log >> :> FileEntry(1, "utf8", << "x" >>))
    @@ (<< Root, N_p, N_g_js >> :> FileEntry(MaxFileSize, "binary", <<>>))
    @@ (<< Root, N_p, N_h_js >> :> FileEntry(MaxFileSize + 1, "binary", <<>>))
    @@ (<< Root, N_p, N_s >> :> DirEntry)
    @@ (<< Root, N_p, N_s, N_b_py >> :> FileEntry(1, "unreadable", <<>>))
    @@ (<< Root, N_w >> :> DirEntry)
    @@ (<< Root, N_k >> :> LockedEntry)

S_dot == << "." >>

S_abs_p == << "/", "p" >>

S_s == << "s" >>

S_abs_nx == << "/", "n", "x" >>

S_a_py == << "a", ".", "p", "y" >>

S_dot_a_py == << ".", "/", "a", ".", "p", "y" >>

S_abs_a_py == << "/", "p", "/", "a", ".", "p", "y" >>

S_r_md == << "r", ".", "m", "d" >>

S_nx_py == << "n", "x", ".", "p", "y" >>

S_locked_c_py == << "/", "k", "/", "c", ".", "p", "y" >>

S_up_a_py == << ".", ".", "/", "a", ".", "p", "y" >>

S_g_js == << "g", ".", "j", "s" >>

S_h_js == << "h", ".", "j", "s" >>

S_k_log == << "k", ".", "l", "o", "g" >>

S_out_nested == << "/", "w", "/", "n", "/", "o", ".", "m", "d" >>

S_out_rel == << "o", ".", "m", "d" >>

S_out_under_file == << "/", "p", "/", "a", ".", "p", "y", "/", "o", ".", "m", "d" >>

S_star_py == << "*", ".", "p", "y" >>

\* the directories argument; <<>> stands for None and for []
DirectoryLists ==
    { <<>>,
      << S_dot >>,
      << S_s, S_abs_nx, S_a_py >> }

\* the files argument; <<>> stands for None and for []
FileLists ==
    { <<>>,
      << S_locked_c_py >>,
      << S_s, S_h_js, S_g_js, S_k_log, S_abs_a_py, S_r_md, S_nx_py, S_up_a_py >> }

\* the output_file argument; <<>> stands for None
OutputFiles == { S_out_nested, S_out_rel, S_out_under_file }

\* the current_working_directory argument; <<>> stands for None and for ""
WorkingDirectories == { <<>>, S_abs_nx, S_s }

\* the ignore_patterns argument; isNone distinguishes None from []
IgnoreLists ==
    { [isNone |-> TRUE, list |-> <<>>],
      [isNone |-> FALSE, list |-> << S_star_py >>] }

\* overview_text, summarize_model, base_directory, include_line_numbers
Options ==
    { [overview_text |-> << "ov" >>, summarize_model |-> << "m" >>,
       base_directory |-> S_abs_p, include_line_numbers |-> TRUE],
      [overview_text |-> <<>>, summarize_model |-> <<>>,
       base_directory |-> <<>>, include_line_numbers |-> FALSE],
      [overview_text |-> <<>>, summarize_model |-> << "m" >>,
       base_directory |-> <<>>, include_line_numbers |-> FALSE] }

NoArgs ==
    [directories |-> <<>>, files |-> <<>>, output_file |-> <<>>,
     overview_text |-> <<>>, summarize_model |-> <<>>,
     ignore_patterns |-> [isNone |-> TRUE, list |-> <<>>],
     base_directory |-> <<>>, current_working_directory |-> <<>>,
     include_line_numbers |-> TRUE]

NoPrev == [outcome |-> "none", written |-> <<>>, faulted |-> FALSE]

NoProbe == [op |-> "none"]

(***************************************************************************)
(* build_context: steps                                                    *)
(***************************************************************************)

\* the variables of a call before any call
Untouched ==
    /\ args = NoArgs
    /\ original_cwd = <<>>
    /\ base_path = <<>>
    /\ collected_files = <<>>
    /\ idx = 1
    /\ content_lines = <<>>
    /\ sections = <<>>
    /\ outcome = "none"
    /\ returned = <<>>
    /\ failed_at = "none"
    /\ io = FALSE
    /\ written = <<>>
    /\ prev = NoPrev
    /\ faulted = FALSE
    /\ troubles = 0
    /\ calls = 0
    /\ cwd_at_call = cwd
    /\ fs_at_call = fs

Init ==
    /\ \E readme \in ReadmeTexts : fs = InitialFs(readme)
    /\ cwd = << Root, N_p >>
    /\ pc = "idle"
    /\ probe = NoProbe
    /\ Untouched

\* what every call starts from
Enter ==
    /\ pc' = "validate"
    /\ calls' = calls + 1
    /\ original_cwd' = <<>>
    /\ base_path' = <<>>
    /\ collected_files' = <<>>
    /\ idx' = 1
    /\ content_lines' = <<>>
    /\ sections' = <<>>
    /\ outcome' = "none"
    /\ returned' = <<>>
    /\ failed_at' = "none"
    /\ io' = FALSE
    /\ written' = <<>>
    /\ faulted' = FALSE
    /\ cwd_at_call' = cwd
    /\ fs_at_call' = fs
    /\ UNCHANGED << fs, cwd, troubles, probe >>

\* a caller calls build_context
Call ==
    /\ pc = "idle"
    /\ calls < MaxCalls
    /\ \E d \in DirectoryLists, f \in FileLists, o \in OutputFiles,
          w \in WorkingDirectories, ig \in IgnoreLists, opt \in Options :
          args' = [directories |-> d, files |-> f, output_file |-> o,
                   overview_text |-> opt.overview_text,
                   summarize_model |-> opt.summarize_model,
                   ignore_patterns |-> ig,
                   base_directory |-> opt.base_directory,
                   current_working_directory |-> w,
                   include_line_numbers |-> opt.include_line_numbers]
    /\ prev' = NoPrev
    /\ Enter

\* the caller calls build_context again with the same arguments
Rerun ==
    /\ pc = "done"
    /\ calls < MaxCalls
    /\ Len(written) <= MaxText
    /\ prev' = [outcome |-> outcome, written |-> written, faulted |-> faulted]
    /\ UNCHANGED args
    /\ Enter

\* lines 404-408 without the test: the call goes on whatever it was given
Validate_NoCheck ==
    /\ pc = "validate"
    /\ pc' = "chdir"
    /\ UNCHANGED << fs, cwd, args, original_cwd, base_path, collected_files, idx,
                    content_lines, sections, outcome, returned, failed_at, io,
                    written, prev, faulted, troubles, calls, cwd_at_call, fs_at_call, probe >>

\* lines 404-408
Validate ==
    /\ pc = "validate"
    /\ IF args.directories = <<>> /\ args.files = <<>>
       THEN /\ pc' = "done"
            /\ outcome' = "ValueError"
            /\ failed_at' = "validate"
       ELSE /\ pc' = "chdir"
            /\ UNCHANGED << outcome, failed_at >>
    /\ UNCHANGED << fs, cwd, args, original_cwd, base_path, collected_files, idx,
                    content_lines, sections, returned, io, written, prev, faulted,
                    troubles, calls, cwd_at_call, fs_at_call, probe >>

\* os.chdir(path) succeeds: the target is a directory that may be entered
CanEnter(fsys, abs) == StatOk(fsys, abs) /\ fsys[abs].kind = "dir"

\* lines 410-416; os.chdir raises outside the try block
Chdir ==
    /\ pc = "chdir"
    /\ IF args.current_working_directory = <<>>
       THEN /\ pc' = "collect"
            /\ UNCHANGED << cwd, original_cwd, outcome, failed_at, io >>
       ELSE LET target == Resolve(PathOf(args.current_working_directory), cwd)
            IN  /\ io' = TRUE
                /\ IF CanEnter(fs, target)
                   THEN /\ original_cwd' = cwd
                        /\ cwd' = target
                        /\ pc' = "collect"
                        /\ UNCHANGED << outcome, failed_at >>
                   ELSE /\ pc' = "done"
                        /\ outcome' = "OSError"
                        /\ failed_at' = "chdir"
                        /\ UNCHANGED << cwd, original_cwd >>
    /\ UNCHANGED << fs, args, base_path, collected_files, idx, content_lines,
                    sections, returned, written, prev, faulted, troubles, calls,
                    cwd_at_call, fs_at_call, probe >>

\* lines 420-429
BasePath ==
    IF args.base_directory # <<>> THEN PathOf(args.base_directory)
    ELSE IF args.directories # <<>> THEN PathOf(args.directories[1])
    ELSE IF args.files # <<>> THEN PathParent(PathOf(args.files[1]))
    ELSE cwd

\* lines 436-449 with the overview put after the heading
Preamble_OverviewLast ==
    << << "# Files" >>, <<>> >> \o
    (IF args.overview_text # <<>> THEN << args.overview_text, <<>> >> ELSE <<>>)

\* lines 436-449
Preamble ==
    (IF args.overview_text # <<>> THEN << args.overview_text, <<>> >> ELSE <<>>)
    \o << << "# Files" >>, <<>> >>

\* lines 419-449: the base path, the collection, the head of the document
Collect ==
    /\ pc = "collect"
    /\ \E strict \in BOOLEAN :
         LET r == collect_files(args.directories, args.files, args.ignore_patterns,
                                cwd, fs, strict)
         IN  IF r.raised
             THEN /\ pc' = "except"
                  /\ failed_at' = "collect"
                  /\ UNCHANGED << collected_files, content_lines >>
             ELSE /\ collected_files' = r.list
                  /\ content_lines' = Preamble
                  /\ pc' = IF r.list = <<>> THEN "write" ELSE "loop"
                  /\ UNCHANGED failed_at
    /\ base_path' = BasePath
    /\ idx' = 1
    /\ io' = TRUE
    /\ UNCHANGED << fs, cwd, args, original_cwd, sections, outcome, returned,
                    written, prev, faulted, troubles, calls, cwd_at_call, fs_at_call, probe >>

\* lines 452-519, one iteration: fault is an exception raised inside the
\* try block before anything was appended (Path.cwd() failing, line 456)
ProcessFile ==
    /\ pc = "loop"
    /\ idx <= Len(collected_files)
    /\ LET file_path == collected_files[idx]
           entry == fs[Resolve(file_path, cwd)]
           file_content == read_file_content(entry, args.include_line_numbers)
           language == get_file_language(file_path)
           asked == WantsSummary(args.summarize_model, file_content)
       IN  \E fault \in BOOLEAN, summary \in SummaryOutcomes :
         LET trouble == fault \/ (asked /\ summary # "ok")
         IN  /\ ~asked \/ fault => summary = "ok"
             /\ trouble => troubles < MaxTroubles
             /\ troubles' = IF trouble THEN troubles + 1 ELSE troubles
             /\ content_lines' = content_lines \o
                   (IF fault THEN ErrorSection(file_path)
                    ELSE FileSection(file_path, entry, cwd, args.summarize_model,
                                     args.include_line_numbers, summary))
             /\ sections' = Append(sections,
                   [file_path |-> file_path,
                    fault |-> fault,
                    heading |-> IF fault THEN PathStr(file_path)
                                ELSE PathStr(DisplayPath(file_path, cwd)),
                    language |-> language,
                    file_content |-> file_content,
                    fence |-> IF fault THEN 0 ELSE FenceWidth(language, file_content),
                    summarized |-> ~fault /\ asked])
             /\ faulted' = (faulted \/ fault)
    /\ idx' = idx + 1
    /\ pc' = IF idx + 1 > Len(collected_files) THEN "write" ELSE "loop"
    /\ UNCHANGED << fs, cwd, args, original_cwd, base_path, collected_files,
                    outcome, returned, failed_at, io, written, prev, calls,
                    cwd_at_call, fs_at_call, probe >>

\* the proper ancestors of an absolute path, the root excluded
Ancestors(abs) == { SubSeq(abs, 1, i) : i \in 2..(Len(abs) - 1) }

\* output_path.parent.mkdir(parents=True, exist_ok=True) succeeds
CanMakeParents(fsys, abs) ==
    /\ ~StatDenied(fsys, abs)
    /\ \A a \in Ancestors(abs) : a \in DOMAIN fsys => fsys[a].kind = "dir"

\* open(output_path, 'w') succeeds once the parents exist
CanOpenForWriting(fsys, abs) ==
    /\ Len(abs) > 1
    /\ abs \in DOMAIN fsys => fsys[abs].kind = "file"

\* the file system after the parents were made and the text was written
WriteFile(fsys, abs, text) ==
    [a \in DOMAIN fsys \cup Ancestors(abs) \cup {abs} |->
        IF a = abs THEN FileEntry(Len(text), "utf8", text)
        ELSE IF a \in DOMAIN fsys THEN fsys[a]
        ELSE DirEntry]

\* lines 521-528; output_file None makes Path() raise TypeError
Write ==
    /\ pc = "write"
    /\ LET output_path == PathOf(args.output_file)
           abs == Resolve(output_path, cwd)
           text == Join(content_lines, << "\n" >>)
       IN  IF /\ args.output_file # <<>>
              /\ CanMakeParents(fs, abs)
              /\ CanOpenForWriting(fs, abs)
           THEN /\ fs' = WriteFile(fs, abs, text)
                /\ written' = text
                /\ returned' = PathStr(output_path)
                /\ outcome' = "returned"
                /\ pc' = "finally"
                /\ UNCHANGED failed_at
           ELSE /\ pc' = "except"
                /\ failed_at' = "write"
                /\ UNCHANGED << fs, written, returned, outcome >>
    /\ io' = TRUE
    /\ UNCHANGED << cwd, args, original_cwd, base_path, collected_files, idx,
                    content_lines, sections, prev, faulted, troubles, calls,
                    cwd_at_call, fs_at_call, probe >>

\* lines 530-532: whatever was raised inside the try becomes a ValueError
Except ==
    /\ pc = "except"
    /\ outcome' = "ValueError"
    /\ pc' = "finally"
    /\ UNCHANGED << fs, cwd, args, original_cwd, base_path, collected_files, idx,
                    content_lines, sections, returned, failed_at, io, written,
                    prev, faulted, troubles, calls, cwd_at_call, fs_at_call, probe >>

\* lines 533-538 without the chdir back
Finally_NoRestore ==
    /\ pc = "finally"
    /\ pc' = "done"
    /\ UNCHANGED << fs, cwd, args, original_cwd, base_path, collected_files, idx,
                    content_lines, sections, outcome, returned, failed_at, io,
                    written, prev, faulted, troubles, calls, cwd_at_call, fs_at_call, probe >>

\* lines 533-538: the working directory is restored if it was changed
Finally ==
    /\ pc = "finally"
    /\ cwd' = IF original_cwd # <<>> THEN original_cwd ELSE cwd
    /\ pc' = "done"
    /\ UNCHANGED << fs, args, original_cwd, base_path, collected_files, idx,
                    content_lines, sections, outcome, returned, failed_at, io,
                    written, prev, faulted, troubles, calls, cwd_at_call, fs_at_call, probe >>

Next ==
    \/ Call
    \/ Rerun
    \/ Validate
    \/ Chdir
    \/ Collect
    \/ ProcessFile
    \/ Write
    \/ Except
    \/ Finally

Spec == Init /\ [][Next]_vars

(***************************************************************************)
(* The pure functions, applied to inputs drawn from bounded sets           *)
(***************************************************************************)

\* every variable but probe and pc
build_vars == << fs, cwd, args, original_cwd, base_path, collected_files, idx,
                 content_lines, sections, outcome, returned, failed_at, io,
                 written, prev, faulted, troubles, calls, cwd_at_call, fs_at_call >>

S_s_b_py == << "s", "/", "b", ".", "p", "y" >>

S_abs_s == << "/", "p", "/", "s" >>

S_abs_k == << "/", "k" >>

CollectDirectoryLists ==
    { <<>>,
      << S_dot >>,
      << S_abs_p >>,
      << S_s, S_abs_nx, S_a_py >>,
      << S_abs_s, S_dot >>,
      << S_abs_k >> }

CollectFileLists ==
    { <<>>,
      << S_a_py >>,
      << S_dot_a_py, S_abs_a_py >>,
      << S_s_b_py, S_r_md, S_nx_py, S_s >>,
      << S_h_js, S_g_js, S_k_log >>,
      << S_locked_c_py >> }

CollectIgnoreLists ==
    { [isNone |-> TRUE, list |-> <<>>],
      [isNone |-> FALSE, list |-> << S_star_py >>],
      [isNone |-> FALSE, list |-> <<>>],
      [isNone |-> FALSE, list |-> << S_s, S_r_md >>] }

CollectWorkingDirectories == { << Root >>, << Root, N_p >>, << Root, N_p, N_s >> }

InitCollect ==
    /\ \E readme \in ReadmeTexts : fs = InitialFs(readme)
    /\ cwd \in CollectWorkingDirectories
    /\ pc = "probe"
    /\ probe \in [op : {"collect_files"},
                  directories : CollectDirectoryLists,
                  files : CollectFileLists,
                  ignore_patterns : CollectIgnoreLists,
                  strict : BOOLEAN,
                  done : {FALSE},
                  raised : {FALSE},
                  result : {<<>>}]
    /\ Untouched

\* collect_files(directories, files, ignore_patterns) is called
ApplyCollect ==
    /\ pc = "probe"
    /\ probe.op = "collect_files"
    /\ LET r == collect_files(probe.directories, probe.files, probe.ignore_patterns,
                              cwd, fs, probe.strict)
       IN  probe' = [probe EXCEPT !.done = TRUE, !.raised = r.raised, !.result = r.list]
    /\ pc' = "probed"
    /\ UNCHANGED build_vars

SpecCollect == InitCollect /\ [][ApplyCollect]_vars

\* the longest pattern list tried
MaxPatterns == 2

S_star == << "*" >>

S_star_log == << "*", ".", "l", "o", "g" >>

S_b_py == << "b", ".", "p", "y" >>

S_dot_git == << ".", "g", "i", "t" >>

IgnorePatternPool == { S_star_py, S_s, S_r_md, S_star, S_star_log, S_b_py, S_dot_git }

\* the lists of at most n patterns
RECURSIVE PatternLists(_)
PatternLists(n) ==
    IF n = 0 THEN { <<>> }
    ELSE PatternLists(n - 1) \cup
         { Append(l, q) : l \in { x \in PatternLists(n - 1) : Len(x) = n - 1 },
                          q \in IgnorePatternPool }

IgnorePaths ==
    { << N_a_py >>,
      << N_s, N_b_py >>,
      << Root, N_p, N_s, N_b_py >>,
      << N_r_md >>,
      << N_p, N_k_log >>,
      << S_dot_git, << "c" >> >>,
      << << "p", "y" >> >>,
      << << "x", ".", "p", "y", "c" >> >> }

\* list[::-1]
Reverse(list) == [i \in 1..Len(list) |-> list[Len(list) + 1 - i]]

InitIgnore ==
    /\ \E readme \in ReadmeTexts : fs = InitialFs(readme)
    /\ cwd = << Root, N_p >>
    /\ pc = "probe"
    /\ probe \in [op : {"should_ignore_file"},
                  file_path : IgnorePaths,
                  ignore_patterns : PatternLists(MaxPatterns) \cup {DEFAULT_IGNORE_PATTERNS},
                  done : {FALSE},
                  result : {FALSE},
                  reversed : {FALSE}]
    /\ Untouched

\* should_ignore_file is called with the list and with the list reversed
ApplyIgnore ==
    /\ pc = "probe"
    /\ probe.op = "should_ignore_file"
    /\ probe' = [probe EXCEPT
                   !.done = TRUE,
                   !.result = should_ignore_file(probe.file_path, probe.ignore_patterns),
                   !.reversed = should_ignore_file(probe.file_path,
                                                   Reverse(probe.ignore_patterns))]
    /\ pc' = "probed"
    /\ UNCHANGED build_vars

SpecIgnore == InitIgnore /\ [][ApplyIgnore]_vars

\* the longest file text tried
MaxLen == 5

TextChars == { Backtick, "x", "\n" }

\* the texts of at most n characters
RECURSIVE Texts(_)
Texts(n) ==
    IF n = 0 THEN { <<>> }
    ELSE Texts(n - 1) \cup
         { Append(t, c) : t \in { x \in Texts(n - 1) : Len(x) = n - 1 },
                          c \in TextChars }

FencePaths ==
    { << N_r_md >>,
      << << "R", ".", "M", "D" >> >>,
      << N_p, N_a_py >>,
      << << "n", "o", "t", "e", "s" >> >> }

InitFence ==
    /\ \E readme \in ReadmeTexts : fs = InitialFs(readme)
    /\ cwd = << Root, N_p >>
    /\ pc = "probe"
    /\ probe \in [op : {"file_section"},
                  file_path : FencePaths,
                  data : Texts(MaxLen),
                  include_line_numbers : BOOLEAN,
                  done : {FALSE},
                  language : {<<>>},
                  file_content : {<<>>},
                  lines : {<<>>}]
    /\ Untouched

\* the body of the loop of build_context runs for one file holding probe.data
ApplySection ==
    /\ pc = "probe"
    /\ probe.op = "file_section"
    /\ LET entry == FileEntry(Len(probe.data), "utf8", probe.data)
       IN  probe' = [probe EXCEPT
                       !.done = TRUE,
                       !.language = get_file_language(probe.file_path),
                       !.file_content = read_file_content(entry, probe.include_line_numbers),
                       !.lines = FileSection(probe.file_path, entry, cwd, <<>>,
                                             probe.include_line_numbers, "ok")]
    /\ pc' = "probed"
    /\ UNCHANGED build_vars

SpecFence == InitFence /\ [][ApplySection]_vars

(***************************************************************************)
(* Claims about build_context, checked under Spec                          *)
(***************************************************************************)

\* C1: once a call of build_context that was given a current_working_directory
\* has ended, by its return or by any exception (a failure during collection,
\* a per-file failure, a failed write), the working directory of the process
\* is the one the call started in.
C1_WorkingDirectoryRestored ==
    (pc = "done" /\ args.current_working_directory # <<>>) => cwd = cwd_at_call

\* a call that entered another directory and then failed to write has ended
C1_Witness ==
    /\ pc = "done"
    /\ args.current_working_directory # <<>>
    /\ original_cwd # <<>>
    /\ Resolve(PathOf(args.current_working_directory), cwd_at_call) # cwd_at_call
    /\ outcome = "ValueError"
    /\ failed_at = "write"

\* C2: a call with neither directories nor files raises the configuration
\* error before anything else happens: it never gets past the validation, the
\* working directory and the file system are as they were, nothing was
\* collected, read or written.
C2_NoInputsNoEffect ==
    (pc # "idle" /\ args.directories = <<>> /\ args.files = <<>>) =>
        /\ pc \in {"validate", "done"}
        /\ pc = "done" => (outcome = "ValueError" /\ failed_at = "validate")
        /\ ~io
        /\ cwd = cwd_at_call
        /\ fs = fs_at_call
        /\ collected_files = <<>>
        /\ sections = <<>>
        /\ written = <<>>

\* such a call, given a working directory and an output path, has raised
C2_Witness ==
    /\ pc = "done"
    /\ args.directories = <<>>
    /\ args.files = <<>>
    /\ args.current_working_directory = S_s
    /\ args.output_file = S_out_nested
    /\ outcome = "ValueError"
    /\ failed_at = "validate"

\* the working directory in which the body of the call ran
WorkingDirectoryOfCall ==
    IF original_cwd # <<>>
    THEN Resolve(PathOf(args.current_working_directory), cwd_at_call)
    ELSE cwd_at_call

\* C3: a call ends by an exception only for the configuration error or for a
\* failed write of the output; in every other case it returns the destination
\* path with the document written there.
C3_OnlyConfigurationOrWriteAborts ==
    pc = "done" =>
        \/ failed_at \in {"validate", "write"}
        \/ /\ outcome = "returned"
           /\ returned = PathStr(PathOf(args.output_file))
           /\ Resolve(PathOf(args.output_file), WorkingDirectoryOfCall) \in DOMAIN fs
           /\ fs[Resolve(PathOf(args.output_file), WorkingDirectoryOfCall)].data = written

\* C4: a second call with the same arguments and no summarization model, both
\* calls returning and no per-file exception in either, writes the text the
\* first call wrote.
C4_RerunWritesSameText ==
    ( /\ pc = "done"
      /\ calls >= 2
      /\ args.summarize_model = <<>>
      /\ outcome = "returned"
      /\ prev.outcome = "returned"
      /\ ~faulted
      /\ ~prev.faulted ) => written = prev.written

(***************************************************************************)
(* Claims about collect_files, checked under SpecCollect                   *)
(***************************************************************************)

\* the call of collect_files has returned a list
Collected == probe.op = "collect_files" /\ probe.done /\ ~probe.raised

\* the patterns in force: the given list, the defaults when none was given
PatternsInForce ==
    IF probe.ignore_patterns.isNone THEN DEFAULT_IGNORE_PATTERNS
    ELSE probe.ignore_patterns.list

\* the paths accepted from the walks of the directories
AcceptedFromWalks ==
    UNION { WalkDirectory(d, PatternsInForce, cwd, fs) : d \in Range(probe.directories) }

\* the paths accepted from the explicit listing
AcceptedFromListing ==
    UNION { ExplicitFile(f, PatternsInForce, cwd, fs) : f \in Range(probe.files) }

\* C5: the list returned by collect_files is in strictly ascending path order,
\* holds no path twice, and holds exactly the paths accepted from the walks of
\* the directories and the paths accepted from the explicit listing.
C5_SortedDistinctUnion ==
    Collected =>
        /\ \A i, j \in 1..Len(probe.result) :
              i < j => PathLess(probe.result[i], probe.result[j])
        /\ \A i, j \in 1..Len(probe.result) :
              i # j => probe.result[i] # probe.result[j]
        /\ Range(probe.result) = AcceptedFromWalks \cup AcceptedFromListing

\* a list of at least three paths, some only walked, some only listed, one both
C5_Witness ==
    /\ Collected
    /\ Len(probe.result) >= 3
    /\ AcceptedFromWalks \ AcceptedFromListing # {}
    /\ AcceptedFromListing \ AcceptedFromWalks # {}
    /\ AcceptedFromWalks \cap AcceptedFromListing # {}

\* C6: a file that a directory walk reaches and that the explicit listing
\* names as well is in the returned list exactly once, however the directory
\* and the file were spelled.
C6_ReachedBothWaysListedOnce ==
    Collected =>
        \A abs \in DOMAIN fs :
            ( /\ \E p \in AcceptedFromWalks : Resolve(p, cwd) = abs
              /\ \E q \in AcceptedFromListing : Resolve(q, cwd) = abs )
            => Cardinality({ i \in 1..Len(probe.result) :
                               Resolve(probe.result[i], cwd) = abs }) = 1

\* the regular files within the size ceiling that the walks reach or the
\* listing names, as collect_files spells them
Candidates ==
    { c \in UNION { RGlob(PathOf(d), cwd, fs) :
                      d \in { x \in Range(probe.directories) :
                                IsDir(fs, Resolve(PathOf(x), cwd)) } }
            \cup { PathOf(f) : f \in Range(probe.files) } :
        /\ IsFile(fs, Resolve(c, cwd))
        /\ fs[Resolve(c, cwd)].size <= MaxFileSize }

S_ext_py == << ".", "p", "y" >>

\* C10: a supplied ignore list replaces the defaults: a candidate file is
\* left out exactly when one of the supplied patterns matches it (with *.py,
\* exactly when its name ends in .py); the defaults decide only when no list
\* was supplied.
C10_SuppliedListReplacesDefaults ==
    Collected =>
        /\ \A c \in Candidates :
              c \in Range(probe.result) <=>
                  ~\E i \in 1..Len(PatternsInForce) :
                      PatternMatches(PatternsInForce[i], c)
        /\ probe.ignore_patterns = [isNone |-> FALSE, list |-> << S_star_py >>] =>
              \A c \in Candidates :
                  c \in Range(probe.result) <=> ~EndsWith(PathName(c), S_ext_py)

\* with *.py supplied, a.py is left out and k.log, which only the default
\* pattern *.log matches, is kept
C10_Witness ==
    /\ Collected
    /\ probe.ignore_patterns = [isNone |-> FALSE, list |-> << S_star_py >>]
    /\ << N_a_py >> \in Candidates
    /\ << N_a_py >> \notin Range(probe.result)
    /\ << N_k_log >> \in Range(probe.result)

(***************************************************************************)
(* Claims about should_ignore_file, checked under SpecIgnore               *)
(***************************************************************************)

\* the name ends with the rest of a pattern that begins with *
WildcardFits(pattern, name) ==
    /\ pattern # <<>>
    /\ pattern[1] = "*"
    /\ \E k \in 0..Len(name) :
          /\ Len(name) - k = Len(pattern) - 1
          /\ \A i \in 1..(Len(pattern) - 1) : name[k + i] = pattern[i + 1]

\* C9: should_ignore_file returns true exactly when some pattern equals the
\* base name, or begins with * and the base name ends with the rest of it, or
\* equals a part of the path; the order of the patterns does not matter.
C9_IgnoredIffSomePatternMatches ==
    (probe.op = "should_ignore_file" /\ probe.done) =>
        /\ probe.result =
              \E k \in 1..Len(probe.ignore_patterns) :
                  LET pattern == probe.ignore_patterns[k]
                  IN  \/ pattern = PathName(probe.file_path)
                      \/ WildcardFits(pattern, PathName(probe.file_path))
                      \/ \E i \in 1..Len(probe.file_path) : probe.file_path[i] = pattern
        /\ probe.reversed = probe.result

\* s/b.py is ignored because of the directory s, the second of two patterns
C9_Witness ==
    /\ probe.op = "should_ignore_file"
    /\ probe.done
    /\ probe.file_path = << N_s, N_b_py >>
    /\ probe.ignore_patterns = << S_r_md, S_s >>
    /\ probe.result

(***************************************************************************)
(* Claims about the fence, checked under SpecFence                         *)
(***************************************************************************)

\* every character of s is a backtick
AllBackticks(s) == \A i \in 1..Len(s) : s[i] = Backtick

\* s holds n backticks in a row
HasRun(s, n) ==
    \E i \in 1..(Len(s) - n + 1) : \A k \in i..(i + n - 1) : s[k] = Backtick

\* the section of the file has been built
Fenced == probe.op = "file_section" /\ probe.done

\* C7: the fence around the content of a markdown file is one backtick longer
\* than the longest run of backticks in that content: the content holds a run
\* one shorter than the fence and no run as long as the fence.
C7_MarkdownFenceOneLonger ==
    (Fenced /\ probe.language = S_markdown) =>
        /\ probe.lines[7] = probe.file_content
        /\ AllBackticks(probe.lines[8])
        /\ probe.lines[6] = probe.lines[8] \o S_markdown
        /\ HasRun(probe.lines[7], Len(probe.lines[8]) - 1)
        /\ ~HasRun(probe.lines[7], Len(probe.lines[8]))

\* a markdown file with a run of five backticks is fenced by six
C7_Witness ==
    /\ Fenced
    /\ probe.language = S_markdown
    /\ HasRun(probe.file_content, 5)
    /\ Len(probe.lines[8]) = 6

\* C8: the fence of a markdown file is at least four backticks wide whatever
\* the content; the fence of any other file is exactly three.
C8_MarkdownFenceAtLeastFour ==
    Fenced =>
        /\ AllBackticks(probe.lines[8])
        /\ IF probe.language = S_markdown
           THEN Len(probe.lines[8]) >= 4
           ELSE Len(probe.lines[8]) = 3


(***************************************************************************)
(* get_file_language, applied to names drawn from a bounded set            *)
(***************************************************************************)

\* the most dot-separated suffixes a tried name has
MaxSuffixes == 2

NameStems ==
    { <<>>,
      << "a" >>,
      << "M", "a", "k", "e", "f", "i", "l", "e" >>,
      << "D", "o", "c", "k", "e", "r", "f", "i", "l", "e" >>,
      << "m", "a", "k", "e", "f", "i", "l", "e", "s" >>,
      << "n", "o", "t", "e", "s" >> }

NameSuffixes ==
    { << "p", "y" >>,
      << "P", "Y" >>,
      << "y", "a", "m", "l" >>,
      << "e", "x", "a", "m", "p", "l", "e" >>,
      << "m", "d" >>,
      <<>> }

\* the lists of at most n suffixes
RECURSIVE SuffixLists(_)
SuffixLists(n) ==
    IF n = 0 THEN { <<>> }
    ELSE SuffixLists(n - 1) \cup
         { Append(l, q) : l \in { x \in SuffixLists(n - 1) : Len(x) = n - 1 },
                          q \in NameSuffixes }

\* the file names tried: a stem followed by at most MaxSuffixes suffixes
FileNames ==
    { Join(<< stem >> \o l, << "." >>) : stem \in NameStems, l \in SuffixLists(MaxSuffixes) }
        \ { <<>>, << "." >>, << ".", "." >> }

InitLanguage ==
    /\ \E readme \in ReadmeTexts : fs = InitialFs(readme)
    /\ cwd = << Root, N_p >>
    /\ pc = "probe"
    /\ probe \in [op : {"get_file_language"},
                  file_path : { << N_p, name >> : name \in FileNames } \cup
                              { << name >> : name \in FileNames },
                  done : {FALSE},
                  result : {<<>>}]
    /\ Untouched

\* get_file_language(file_path) is called
ApplyLanguage ==
    /\ pc = "probe"
    /\ probe.op = "get_file_language"
    /\ probe' = [probe EXCEPT !.done = TRUE,
                              !.result = get_file_language(probe.file_path)]
    /\ pc' = "probed"
    /\ UNCHANGED build_vars

SpecLanguage == InitLanguage /\ [][ApplyLanguage]_vars

\* the positions, base name excluded, of the dot-separated pieces of a name
\* that are keys of the extension table once a dot is put in front
KnownSuffixes(name) ==
    LET pieces == Split(name, ".")
    IN  { i \in 2..Len(pieces) : \E e \in LANGUAGE_MAP : e[1] = << "." >> \o pieces[i] }

\* the language the table gives to the rightmost known suffix of a name
RightmostKnown(name) ==
    LET pieces == Split(name, ".")
        i == CHOOSE k \in KnownSuffixes(name) : \A j \in KnownSuffixes(name) : j <= k
    IN  (CHOOSE e \in LANGUAGE_MAP : e[1] = << "." >> \o pieces[i])[2]

LanguageProbed == pc = "probed" /\ probe.op = "get_file_language"

\* C11 (as amended): for a name with a dot, compared in lower case, the
\* result is the language of the rightmost dot-separated suffix, base name
\* excluded, that is a key of the extension table, and text when no suffix
\* is; a name with no dot gives text unless it is dockerfile, makefile,
\* rakefile or gemfile (the result is then the lower-case name) or begins
\* with makefile (the result is then makefile).
C11_RightmostKnownSuffixOrText ==
    LanguageProbed =>
        LET name == Lower(PathName(probe.file_path))
        IN  IF HasChar(name, ".")
            THEN IF KnownSuffixes(name) = {}
                 THEN probe.result = S_text
                 ELSE probe.result = RightmostKnown(name)
            ELSE /\ name \in WellKnownNames => probe.result = name
                 /\ (name \notin WellKnownNames /\ StartsWith(name, S_makefile))
                        => probe.result = S_makefile
                 /\ (name \notin WellKnownNames /\ ~StartsWith(name, S_makefile))
                        => probe.result = S_text

\* a name whose last suffix is unknown and whose suffix before it is known
C11_Witness ==
    /\ LanguageProbed
    /\ PathName(probe.file_path) =
           << "a", ".", "y", "a", "m", "l", ".", "e", "x", "a", "m", "p", "l", "e" >>
    /\ probe.result = << "y", "a", "m", "l" >>

\* C11 (as stated): every name with no recognized suffix gives text
C11_NoKnownSuffixIsText ==
    (LanguageProbed /\ KnownSuffixes(Lower(PathName(probe.file_path))) = {})
        => probe.result = S_text

\* the listed paths that exist, are regular files, match no pattern in force
\* and hold at most 1 MiB
ValidListed ==
    { PathOf(f) : f \in { x \in Range(probe.files) :
        LET abs == Resolve(PathOf(x), cwd)
        IN  /\ abs \in DOMAIN fs
            /\ fs[abs].kind = "file"
            /\ \A i \in 1..Len(PatternsInForce) :
                  ~PatternMatches(PatternsInForce[i], PathOf(x))
            /\ fs[abs].size <= 1024 * 1024 } }

\* C12: given explicit files only, collect_files raises nothing and returns
\* exactly the listed paths that exist, are regular files, match no ignore
\* pattern and hold at most 1 MiB; nothing that was not listed is returned.
C12_ExplicitFilesOnlyValidSubset ==
    (probe.op = "collect_files" /\ probe.done /\ probe.directories = <<>>) =>
        /\ ~probe.raised
        /\ Range(probe.result) = ValidListed
        /\ \A i \in 1..Len(probe.result) :
              \E f \in Range(probe.files) : PathOf(f) = probe.result[i]

\* C13: the heading of every file section shows the file's path relative to
\* the base path: base_directory when supplied, else the first directory
\* argument, else the parent of the first explicit file, else the working
\* directory.
C13_HeadingRelativeToBase ==
    \A i \in 1..Len(sections) :
        LET abs == Resolve(sections[i].file_path, WorkingDirectoryOfCall)
            base == Resolve(base_path, WorkingDirectoryOfCall)
        IN  (~sections[i].fault /\ IsRelativeTo(abs, base))
                => sections[i].heading = PathStr(RelativeTo(abs, base))

\* C16: the heading of every file section shows the file's path relative to
\* the working directory when the file lies under it, and an absolute path
\* in every other case.
C16_HeadingRelativeElseAbsolute ==
    \A i \in 1..Len(sections) :
        LET abs == Resolve(sections[i].file_path, WorkingDirectoryOfCall)
        IN  ~sections[i].fault =>
                IF IsRelativeTo(abs, WorkingDirectoryOfCall)
                THEN sections[i].heading = PathStr(RelativeTo(abs, WorkingDirectoryOfCall))
                ELSE StartsWith(sections[i].heading, << "/" >>)

\* the loop of build_context has ended and the document is about to be written
DocumentReady == pc = "write"

\* the number of lines before the first file section
HeadLines == IF args.overview_text # <<>> THEN 4 ELSE 2

\* the overview text, when given, comes first and the "# Files" heading after it
HeadInOrder ==
    /\ Len(content_lines) >= HeadLines
    /\ args.overview_text # <<>> => content_lines[1] = args.overview_text
    /\ content_lines[HeadLines - 1] = << "# Files" >>
    /\ \A k \in 1..(HeadLines - 2) : content_lines[k] # << "# Files" >>

\* one section per collected file, in the collector's ascending path order
OneSectionPerFileAscending ==
    /\ Len(sections) = Len(collected_files)
    /\ \A i \in 1..Len(sections) : sections[i].file_path = collected_files[i]
    /\ \A i, j \in 1..Len(collected_files) :
          i < j => PathLess(collected_files[i], collected_files[j])

\* the lines after line k are the section of file i: heading, summary,
\* contents in a fenced block
FullSectionAt(k, i) ==
    /\ content_lines[k + 1] = << "## " >> \o sections[i].heading
    /\ content_lines[k + 2] = << "### Summary" >>
    /\ content_lines[k + 3] # <<>>
    /\ content_lines[k + 5] = << "### File Contents" >>
    /\ content_lines[k + 6] = Backticks(sections[i].fence) \o sections[i].language
    /\ content_lines[k + 7] = sections[i].file_content
    /\ content_lines[k + 8] = Backticks(sections[i].fence)

\* the lines after line k are the error section of file i: the heading and
\* the bracketed error, with no summary and no contents
ErrorSectionAt(k, i) ==
    /\ content_lines[k + 1] = << "## " >> \o sections[i].heading
    /\ content_lines[k + 2] = <<>>
    /\ StartsWith(content_lines[k + 3], << "[", "Error processing file: " >>)
    /\ content_lines[k + 4] = <<>>

\* the number of lines of the section of file i
SectionLines(i) == IF sections[i].fault THEN 4 ELSE 9

\* the number of lines before the section of file i
RECURSIVE SectionOffset(_)
SectionOffset(i) ==
    IF i = 1 THEN HeadLines ELSE SectionOffset(i - 1) + SectionLines(i - 1)

\* C14 (as amended): the overview text, when given, comes before the
\* "# Files" heading; then comes one section per collected file in the
\* collector's ascending path order; the section of a file processed
\* without an exception is the "## path" heading, then "### Summary", then
\* "### File Contents" with its fenced block; the section of a file whose
\* processing raised is the "## path" heading and the bracketed error only.
C14_PartsInOrderWithErrorSections ==
    DocumentReady =>
        /\ HeadInOrder
        /\ OneSectionPerFileAscending
        /\ Len(content_lines) =
              IF sections = <<>> THEN HeadLines
              ELSE SectionOffset(Len(sections)) + SectionLines(Len(sections))
        /\ \A i \in 1..Len(sections) :
              IF sections[i].fault
              THEN ErrorSectionAt(SectionOffset(i), i)
              ELSE FullSectionAt(SectionOffset(i), i)

\* a document with an overview and two sections, one of them an error section
C14_Witness ==
    /\ DocumentReady
    /\ args.overview_text # <<>>
    /\ Len(sections) >= 2
    /\ \E i, j \in 1..Len(sections) : sections[i].fault /\ ~sections[j].fault

\* C14 (as stated): every collected file has a section made of the heading,
\* then "### Summary", then "### File Contents" with its fenced block.
C14_EverySectionComplete ==
    DocumentReady =>
        /\ HeadInOrder
        /\ OneSectionPerFileAscending
        /\ Len(content_lines) = HeadLines + 9 * Len(sections)
        /\ \A i \in 1..Len(sections) : FullSectionAt(HeadLines + 9 * (i - 1), i)

\* C15: for every file processed without an exception the summarizer is
\* asked exactly when a summarization model was given and the file was read;
\* when it is not asked, the Summary subsection holds the placeholder.
C15_SummarizedIffModelAndRead ==
    pc \in {"loop", "write"} =>
        \A i \in 1..Len(sections) :
            LET entry == fs[Resolve(sections[i].file_path, cwd)]
            IN  ~sections[i].fault =>
                  /\ sections[i].summarized <=>
                        (args.summarize_model # <<>> /\ entry.enc = "utf8")
                  /\ ~sections[i].summarized =>
                        content_lines[SectionOffset(i) + 3] = NoSummary
=============================================================================
